---- MODULE Spec2Model ----
(***************************************************************************)
(* Model of the Leaxer desktop shell (apps/leaxer_desktop/src-tauri/src/   *)
(* main.rs): the backend locator, the config reader, the startup log, the  *)
(* setup hook that spawns the backend and stores its handle, and the       *)
(* window-event hook that kills the backend and clears the handle.         *)
(***************************************************************************)
EXTENDS Integers, Sequences, FiniteSets, TLC

(* ---------------------------------------------------------------------- *)
(* Bounds of the model                                                     *)
(* ---------------------------------------------------------------------- *)
\* window-close requests delivered in one run
MaxCloses == 2
\* event-handler invocations that may be in flight at once
NumHandlers == 2

\* writes to config.json by other programs during one run
MaxConfigWrites == 1

Handlers == 1..NumHandlers

(* ---------------------------------------------------------------------- *)
(* Option<T>                                                               *)
(* ---------------------------------------------------------------------- *)
None == [t |-> "None"]
Some(x) == [t |-> "Some", v |-> x]
IsSome(o) == o.t = "Some"

(* ---------------------------------------------------------------------- *)
(* Paths: a path is the sequence of its components, "/" being the root     *)
(* ---------------------------------------------------------------------- *)
\* a file name that is not valid Unicode (an unpaired surrogate on Windows,
\* a non-UTF-8 byte sequence elsewhere)
NonUnicodeNames == {"inst\\uD800"}

Join(p, q) == p \o q

\* Path::parent: absent for the root and for the empty path
Parent(p) ==
    IF p = <<>> \/ p = <<"/">> THEN None ELSE Some(SubSeq(p, 1, Len(p) - 1))

\* Path::to_str: absent when a component is not valid Unicode
ToStr(p) ==
    IF \E i \in 1..Len(p) : p[i] \in NonUnicodeNames THEN None ELSE Some(p)

(* ---------------------------------------------------------------------- *)
(* The environment the program is started in                               *)
(* ---------------------------------------------------------------------- *)
Platforms == {"windows", "macos", "linux"}

\* what dirs::document_dir() (Windows, macOS) or dirs::data_dir() (Linux)
\* answers
PlatformDirs(pf) ==
    {None,
     IF pf = "linux" THEN Some(<<"/", "home", "share">>)
     ELSE Some(<<"/", "home", "Documents">>)}

\* what app.path().resource_dir().ok() answers
ResourceDirs ==
    {None, Some(<<"/", "app", "resources">>), Some(<<"/", "res">>),
     Some(<<"/", "inst\\uD800">>)}

\* what std::env::current_exe().ok() answers
CurrentExes == {None, Some(<<"/", "app", "leaxer">>)}

\* the contents config.json may have when it can be read
ConfigContents ==
    {"{\"network_exposure_enabled\": tru", "true", "{}",
     "{\"network_exposure_enabled\": true}",
     "{\"network_exposure_enabled\": false}",
     "{\"network_exposure_enabled\": \"true\"}",
     "{\"network_exposure_enabled\": 1}",
     "{\"network_exposure_enabled\": true, \"other\": false}"}

ConfigFiles ==
    {[state |-> "missing", content |-> ""],
     [state |-> "unreadable", content |-> ""]}
    \cup {[state |-> "present", content |-> c] : c \in ConfigContents}

VARIABLES
    platform,       \* target_os the binary was built for
    platformDir,    \* answer of dirs::document_dir() or dirs::data_dir()
    resourceDir,    \* answer of resource_dir().ok()
    currentExe,     \* answer of current_exe().ok()
    fs,             \* the paths that exist on disk
    configFile,     \* <user dir>/config.json
    logWritable,    \* whether <user dir>/startup.log can be opened for append
    configWrites,   \* writes to config.json by other programs so far
    log,            \* the lines appended to startup.log, oldest first
    setupPc,        \* position of the setup hook
    probes,         \* the paths setup has called Path::exists on, in order
    backendExe,     \* setup's local backend_exe
    cmd,            \* setup's local cmd (the command being built)
    networkEnabled, \* setup's local network_enabled
    configReads,    \* calls of is_network_exposure_enabled so far
    spawnAttempts,  \* calls of cmd.spawn() so far
    procs,          \* the backend processes spawned so far, in spawn order
    child,          \* BackendState.child: the index in procs of the handle
    mutex,          \* the handler holding Mutex<BackendState>, 0 when free
    poisoned,       \* whether the mutex is poisoned
    hpc,            \* position of each window-event handler invocation
    closesHandled,  \* CloseRequested handlers that have run to their end
    lastKill,       \* result of the most recent child.kill()
    epmdKills       \* taskkill commands issued for epmd.exe

envVars == <<platform, platformDir, resourceDir, currentExe, fs,
             configFile, logWritable, configWrites>>
setupVars == <<setupPc, probes, backendExe, cmd, networkEnabled, configReads,
               spawnAttempts>>
handlerVars == <<mutex, poisoned, hpc, closesHandled, lastKill, epmdKills>>
vars == <<envVars, setupVars, handlerVars, log, procs, child>>

(* ---------------------------------------------------------------------- *)
(* get_leaxer_user_dir                                                     *)
(* ---------------------------------------------------------------------- *)
OptJoin(o, name) == IF IsSome(o) THEN Some(Join(o.v, <<name>>)) ELSE None

get_leaxer_user_dir == OptJoin(platformDir, "Leaxer")

(* ---------------------------------------------------------------------- *)
(* log_to_file                                                             *)
(* ---------------------------------------------------------------------- *)
\* a line of startup.log; the "[<seconds>] " prefix is left out
LogLine(msg, arg) == [msg |-> msg, arg |-> arg]

\* mutant: the line is never written
log_to_file_Silent(l, line) == l

\* the log after log_to_file: nothing is written when the user directory is
\* unresolved or the file cannot be opened
log_to_file(l, line) ==
    IF IsSome(get_leaxer_user_dir) /\ logWritable THEN Append(l, line) ELSE l

MsgLooking == "[Leaxer] Looking for backend..."
MsgFound == "[Leaxer] Found backend at: "
MsgNetwork == "[Leaxer] Network exposure enabled, binding to all interfaces"
MsgSpawning == "[Leaxer] Spawning command..."
MsgStarted == "[Leaxer] Backend started with PID: "
MsgFailed == "[Leaxer] Failed to start backend: "
MsgNotFound ==
    "[Leaxer] Backend not found, running in dev mode (connect to localhost:4000)"

(* ---------------------------------------------------------------------- *)
(* serde_json::Value, and from_str on the contents above                   *)
(* ---------------------------------------------------------------------- *)
JErr == [t |-> "Err"]
JBool(b) == [t |-> "Bool", b |-> b]
JNumber(n) == [t |-> "Number", n |-> n]
JString(s) == [t |-> "String", s |-> s]
JObject(o) == [t |-> "Object", o |-> o]

\* serde_json::from_str::<Value>
from_str(s) ==
    CASE s = "{\"network_exposure_enabled\": tru" -> JErr
      [] s = "true" -> JBool(TRUE)
      [] s = "{}" -> JObject(<<>>)
      [] s = "{\"network_exposure_enabled\": true}" ->
            JObject([network_exposure_enabled |-> JBool(TRUE)])
      [] s = "{\"network_exposure_enabled\": false}" ->
            JObject([network_exposure_enabled |-> JBool(FALSE)])
      [] s = "{\"network_exposure_enabled\": \"true\"}" ->
            JObject([network_exposure_enabled |-> JString("true")])
      [] s = "{\"network_exposure_enabled\": 1}" ->
            JObject([network_exposure_enabled |-> JNumber(1)])
      [] s = "{\"network_exposure_enabled\": true, \"other\": false}" ->
            JObject([network_exposure_enabled |-> JBool(TRUE),
                     other |-> JBool(FALSE)])
      [] OTHER -> JErr

\* Value::get with a string index: only an object has string keys
ValueGet(v, key) ==
    IF v.t = "Object" /\ key \in DOMAIN v.o THEN Some(v.o[key]) ELSE None

\* mutant: a value that is not a boolean counts as true
as_bool_Truthy(v) == IF v.t = "Bool" THEN Some(v.b) ELSE Some(TRUE)

\* Value::as_bool
as_bool(v) == IF v.t = "Bool" THEN Some(v.b) ELSE None

\* fs::read_to_string(<user dir>/config.json)
read_to_string(file) ==
    IF file.state = "present" THEN Some(file.content) ELSE None

(* ---------------------------------------------------------------------- *)
(* is_network_exposure_enabled                                             *)
(* ---------------------------------------------------------------------- *)
is_network_exposure_enabled ==
    IF ~IsSome(get_leaxer_user_dir) THEN FALSE
    ELSE LET content == read_to_string(configFile) IN
         IF ~IsSome(content) THEN FALSE
         ELSE LET config == from_str(content.v) IN
              IF config.t = "Err" THEN FALSE
              ELSE LET flag == ValueGet(config, "network_exposure_enabled") IN
                   LET b == IF IsSome(flag) THEN as_bool(flag.v) ELSE None IN
                   IF IsSome(b) THEN b.v ELSE FALSE

(* ---------------------------------------------------------------------- *)
(* The backend locator (setup, lines 89-104)                               *)
(* ---------------------------------------------------------------------- *)
backend_filename ==
    <<"leaxer_core", "bin",
      IF platform = "windows" THEN "leaxer_core.bat" ELSE "leaxer_core">>

\* Option::map(|p| p.join(..))
MapJoin(o, q) == IF IsSome(o) THEN Some(Join(o.v, q)) ELSE None

\* Option::filter(|p| p.exists())
FilterExists(o) == IF IsSome(o) /\ o.v \in fs THEN o ELSE None

\* Option::or_else
OrElse(o, alt) == IF IsSome(o) THEN o ELSE alt

resource_path == resourceDir

exe_dir == IF IsSome(currentExe) THEN Parent(currentExe.v) ELSE None

\* the three candidates, in the order the code probes them
ResourceCandidate == MapJoin(resource_path, backend_filename)
PortableCandidate ==
    MapJoin(MapJoin(exe_dir, <<"resources">>), backend_filename)
ExeDirCandidate == MapJoin(exe_dir, backend_filename)

\* the exists() calls of a candidate: none when its directory is unresolved
Probe(o) == IF IsSome(o) THEN <<o.v>> ELSE <<>>

\* the exists() calls lines 100-104 make, in order: or_else evaluates its
\* closure only when the candidates before it yielded nothing
ProbedPaths ==
    Probe(ResourceCandidate)
    \o (IF IsSome(FilterExists(ResourceCandidate)) THEN <<>>
        ELSE Probe(PortableCandidate)
             \o (IF IsSome(FilterExists(PortableCandidate)) THEN <<>>
                 ELSE Probe(ExeDirCandidate)))

\* mutant: the resource directory is skipped when the user directory is
\* unresolved
LocateBackend_NeedsUserDir ==
    IF IsSome(get_leaxer_user_dir)
    THEN OrElse(FilterExists(ResourceCandidate),
                OrElse(FilterExists(PortableCandidate),
                       FilterExists(ExeDirCandidate)))
    ELSE OrElse(FilterExists(PortableCandidate),
                FilterExists(ExeDirCandidate))

\* mutant: the executable's own directory is probed first
LocateBackend_ExeDirFirst ==
    OrElse(FilterExists(ExeDirCandidate),
           OrElse(FilterExists(PortableCandidate),
                  FilterExists(ResourceCandidate)))

\* lines 100-104
LocateBackend ==
    OrElse(FilterExists(ResourceCandidate),
           OrElse(FilterExists(PortableCandidate),
                  FilterExists(ExeDirCandidate)))

(* ---------------------------------------------------------------------- *)
(* The spawn command (setup, lines 111-150)                                *)
(* ---------------------------------------------------------------------- *)
CREATE_NO_WINDOW == 134217728

OsStr(s) == <<s>>

\* mutant: the bin directory itself is taken as the release root
ReleaseRoot_BinDir(exe) == Parent(exe)

\* backend_exe.parent().and_then(|p| p.parent())
ReleaseRoot(exe) ==
    LET bin == Parent(exe) IN IF IsSome(bin) THEN Parent(bin.v) ELSE None

\* Command::new, args, creation_flags and current_dir on Windows
WindowsCommand(exe) ==
    [program |-> OsStr("cmd"),
     args |-> <<OsStr("/C"), ToStr(exe).v, OsStr("start")>>,
     flags |-> CREATE_NO_WINDOW,
     cwd |-> ReleaseRoot(exe),
     env |-> <<>>]

\* Command::new, arg and current_dir elsewhere
DirectCommand(exe) ==
    [program |-> exe,
     args |-> <<OsStr("start")>>,
     flags |-> 0,
     cwd |-> ReleaseRoot(exe),
     env |-> <<>>]

\* Command::env
SetEnv(c, key, value) == [c EXCEPT !.env = (key :> value) @@ c.env]

\* the five variables Phoenix requires
PhoenixEnv(c) ==
    SetEnv(SetEnv(SetEnv(SetEnv(SetEnv(c,
        "PHX_SERVER", "true"),
        "PHX_HOST", "localhost"),
        "SECRET_KEY_BASE",
        "leaxer_desktop_secret_key_base_that_is_at_least_64_bytes_long_for_security"),
        "SIGNING_SALT", "leaxer_desktop_signing_salt"),
        "CORS_ORIGINS",
        "http://localhost:4000,http://127.0.0.1:4000,https://tauri.localhost,tauri://localhost")

\* mutant: enabling network exposure also rebinds the Phoenix host
NetworkEnv_RebindsHost(c, enabled) ==
    IF enabled
    THEN SetEnv(SetEnv(c, "LEAXER_BIND_ALL_INTERFACES", "true"),
                "PHX_HOST", "0.0.0.0")
    ELSE c

\* mutant: the variable is set whatever the policy
NetworkEnv_Always(c, enabled) ==
    SetEnv(c, "LEAXER_BIND_ALL_INTERFACES", "true")

\* lines 146-150: the variable is set only when the policy is true
NetworkEnv(c, enabled) ==
    IF enabled THEN SetEnv(c, "LEAXER_BIND_ALL_INTERFACES", "true") ELSE c

\* mutant: the bind-all variable is decided from config.json when the
\* process is started instead of when the policy was read
Process_RereadsPolicy(c, pid) ==
    [pid |-> pid, program |-> c.program, args |-> c.args, cwd |-> c.cwd,
     env |-> IF is_network_exposure_enabled
             THEN ("LEAXER_BIND_ALL_INTERFACES" :> "true") @@ c.env
             ELSE [k \in (DOMAIN c.env) \ {"LEAXER_BIND_ALL_INTERFACES"} |->
                        c.env[k]],
     flags |-> c.flags, state |-> "running", kills |-> 0]

\* the process cmd.spawn() starts
Process(c, pid) ==
    [pid |-> pid, program |-> c.program, args |-> c.args, cwd |-> c.cwd,
     env |-> c.env, flags |-> c.flags, state |-> "running", kills |-> 0]

(* ---------------------------------------------------------------------- *)
(* Initial state: Mutex::new(BackendState { child: None }), line 84        *)
(* ---------------------------------------------------------------------- *)
\* the backend executables that may exist on disk
BackendPaths(pf) ==
    LET name == IF pf = "windows" THEN "leaxer_core.bat" ELSE "leaxer_core" IN
    {Join(d, <<"leaxer_core", "bin", name>>) :
        d \in {<<"/", "app">>, <<"/", "app", "resources">>, <<"/", "res">>,
               <<"/", "inst\\uD800">>}}

Init ==
    /\ platform \in Platforms
    /\ platformDir \in PlatformDirs(platform)
    /\ resourceDir \in ResourceDirs
    /\ currentExe \in CurrentExes
    /\ fs \in SUBSET BackendPaths(platform)
    /\ configFile \in ConfigFiles
    /\ logWritable \in BOOLEAN
    /\ configWrites = 0
    /\ log = <<>>
    /\ setupPc = "locate"
    /\ probes = <<>>
    /\ backendExe = None
    /\ cmd = None
    /\ networkEnabled = FALSE
    /\ configReads = 0
    /\ spawnAttempts = 0
    /\ procs = <<>>
    /\ child = None
    /\ mutex = 0
    /\ poisoned = FALSE
    /\ hpc = [h \in Handlers |-> "idle"]
    /\ closesHandled = 0
    /\ lastKill = "none"
    /\ epmdKills = 0

(* ---------------------------------------------------------------------- *)
(* The setup hook (lines 85-169)                                           *)
(* ---------------------------------------------------------------------- *)
\* lines 89-108: probe the candidates, log, branch on the result
SetupLocate ==
    /\ setupPc = "locate"
    /\ backendExe' = LocateBackend
    /\ probes' = ProbedPaths
    /\ log' = log_to_file(log, LogLine(MsgLooking, <<>>))
    /\ setupPc' = IF IsSome(LocateBackend) THEN "build" ELSE "devmode"
    /\ UNCHANGED <<envVars, handlerVars, cmd, networkEnabled, configReads,
                   spawnAttempts, procs, child>>

\* where setup goes after the command is built: to_str().unwrap() on line 121
\* panics on Windows when the path is not valid Unicode
AfterBuild(exe) ==
    IF platform = "windows" /\ ~IsSome(ToStr(exe)) THEN "panicked" ELSE "policy"

\* lines 109-143: log the path, build the command, set the fixed variables
SetupBuild ==
    /\ setupPc = "build"
    /\ log' = log_to_file(log, LogLine(MsgFound, backendExe.v))
    /\ setupPc' = AfterBuild(backendExe.v)
    /\ cmd' = IF setupPc' = "panicked" THEN cmd
              ELSE IF platform = "windows"
                   THEN Some(PhoenixEnv(WindowsCommand(backendExe.v)))
                   ELSE Some(PhoenixEnv(DirectCommand(backendExe.v)))
    /\ UNCHANGED <<envVars, handlerVars, probes, backendExe, networkEnabled,
                   configReads, spawnAttempts, procs, child>>

\* lines 145-152: read the network policy, extend the environment, log
SetupPolicy ==
    /\ setupPc = "policy"
    /\ networkEnabled' = is_network_exposure_enabled
    /\ configReads' = configReads + 1
    /\ cmd' = Some(NetworkEnv(cmd.v, networkEnabled'))
    /\ log' = LET l == IF networkEnabled'
                       THEN log_to_file(log, LogLine(MsgNetwork, <<>>))
                       ELSE log
              IN log_to_file(l, LogLine(MsgSpawning, <<>>))
    /\ setupPc' = "spawn"
    /\ UNCHANGED <<envVars, handlerVars, probes, backendExe, spawnAttempts,
                   procs, child>>

\* mutant: the hook is entered again after it returned
SetupReturn_Reentered == "locate"

\* the position setup reaches when it returns Ok(()) on line 168
SetupReturn == "done"

\* mutant: the spawned process is dropped instead of stored
StoredChild_Dropped(i) == None

\* the handle line 158 stores for the process at index i of procs
StoredChild(i) == Some(i)

\* mutant: a failed spawn is tried again
AfterSpawnFailure_Retry == "spawn"

\* the position setup reaches after the Err arm of lines 160-162: it falls
\* through to the Ok(()) of line 168
AfterSpawnFailure == SetupReturn

\* lines 154-163 and 168: the single spawn attempt; the handle is stored
\* under the lock on success, the error is logged on failure
SetupSpawn ==
    /\ setupPc = "spawn"
    /\ spawnAttempts' = spawnAttempts + 1
    /\ \E ok \in BOOLEAN :
        IF ok
        THEN /\ procs' = Append(procs, Process(cmd.v, Len(procs) + 1))
             /\ log' = log_to_file(log, LogLine(MsgStarted, Len(procs) + 1))
             /\ mutex = 0
             /\ IF poisoned
                THEN /\ setupPc' = "panicked"
                     /\ child' = child
                ELSE /\ setupPc' = SetupReturn
                     /\ child' = StoredChild(Len(procs) + 1)
        ELSE /\ log' = log_to_file(log, LogLine(MsgFailed, <<>>))
             /\ setupPc' = AfterSpawnFailure
             /\ UNCHANGED <<procs, child>>
    /\ UNCHANGED <<envVars, handlerVars, probes, backendExe, cmd,
                   networkEnabled, configReads>>

\* lines 164-168: no backend found
SetupDevMode ==
    /\ setupPc = "devmode"
    /\ log' = log_to_file(log, LogLine(MsgNotFound, <<>>))
    /\ setupPc' = SetupReturn
    /\ UNCHANGED <<envVars, handlerVars, probes, backendExe, cmd,
                   networkEnabled, configReads, spawnAttempts, procs, child>>

(* ---------------------------------------------------------------------- *)
(* The window-event hook (lines 170-190)                                   *)
(* ---------------------------------------------------------------------- *)
WindowEvents == {"CloseRequested", "Focused"}

InFlight == Cardinality({h \in Handlers : hpc[h] # "idle"})

\* line 171: the hook is called for every window event once the application
\* runs; only CloseRequested enters the body
WindowEvent(h) ==
    /\ setupPc = "done"
    /\ hpc[h] = "idle"
    /\ \E event \in WindowEvents :
        IF event = "CloseRequested"
        THEN /\ closesHandled + InFlight < MaxCloses
             /\ hpc' = [hpc EXCEPT ![h] = "lock"]
        ELSE UNCHANGED hpc
    /\ UNCHANGED <<envVars, setupVars, log, procs, child, mutex, poisoned,
                   closesHandled, lastKill, epmdKills>>

\* mutant: the state is entered without waiting for the mutex
LockFree_Ignored(m) == TRUE

\* whether Mutex::lock can return: the mutex m is held by nobody
LockFree(m) == m = 0

\* lines 173-174: state.lock().unwrap() blocks until the mutex is free and
\* panics when it is poisoned
HandlerLock(h) ==
    /\ hpc[h] = "lock"
    /\ LockFree(mutex)
    /\ IF poisoned
       THEN /\ hpc' = [hpc EXCEPT ![h] = "panicked"]
            /\ mutex' = mutex
       ELSE /\ hpc' = [hpc EXCEPT ![h] = "kill"]
            /\ mutex' = h
    /\ UNCHANGED <<envVars, setupVars, log, procs, child, poisoned,
                   closesHandled, lastKill, epmdKills>>

\* child.kill(): the process is sent the signal; ok tells whether the
\* operating system accepted it
Kill(p, ok) ==
    [p EXCEPT !.kills = @ + 1,
              !.state = IF ok /\ @ = "running" THEN "killed" ELSE @]

\* mutant: the handler clears the handle without signalling it
ShouldKill_Never(c) == FALSE

\* whether the handler signals the handle it finds (line 175)
ShouldKill(c) == IsSome(c)

\* lines 175-178: kill the child when a handle is held, ignoring the result
HandlerKill(h) ==
    /\ hpc[h] = "kill"
    /\ \/ /\ ShouldKill(child)
          /\ \E ok \in BOOLEAN :
              /\ procs' = [procs EXCEPT ![child.v] = Kill(@, ok)]
              /\ lastKill' = IF ok THEN "ok" ELSE "err"
       \/ /\ ~ShouldKill(child)
          /\ UNCHANGED <<procs, lastKill>>
    /\ hpc' = [hpc EXCEPT ![h] = "clear"]
    /\ UNCHANGED <<envVars, setupVars, log, child, mutex, poisoned,
                   closesHandled, epmdKills>>

\* mutant: the handle is left in place after the kill
ClearedChild_Kept(c) == c

\* the value line 179 leaves in guard.child
ClearedChild(c) == None

\* mutant: the epmd cleanup is left out
AfterClear_SkipEpmd(pf) == "unlock"

\* the step after line 179: the epmd cleanup of lines 182-188 is compiled
\* in on Windows only; elsewhere the block ends
AfterClear(pf) == IF pf = "windows" THEN "epmd" ELSE "unlock"

\* line 179: guard.child = None
HandlerClear(h) ==
    /\ hpc[h] = "clear"
    /\ child' = ClearedChild(child)
    /\ hpc' = [hpc EXCEPT ![h] = AfterClear(platform)]
    /\ UNCHANGED <<envVars, setupVars, log, procs, mutex, poisoned,
                   closesHandled, lastKill, epmdKills>>

\* lines 182-188: on Windows, taskkill /F /IM epmd.exe, result ignored
HandlerEpmd(h) ==
    /\ hpc[h] = "epmd"
    /\ epmdKills' = epmdKills + 1
    /\ hpc' = [hpc EXCEPT ![h] = "unlock"]
    /\ UNCHANGED <<envVars, setupVars, log, procs, child, mutex, poisoned,
                   closesHandled, lastKill>>

\* line 189: the guard is dropped at the end of the if-let block
HandlerUnlock(h) ==
    /\ hpc[h] = "unlock"
    /\ mutex' = 0
    /\ hpc' = [hpc EXCEPT ![h] = "idle"]
    /\ closesHandled' = closesHandled + 1
    /\ UNCHANGED <<envVars, setupVars, log, procs, child, poisoned, lastKill,
                   epmdKills>>

(* ---------------------------------------------------------------------- *)
(* The backend process itself                                              *)
(* ---------------------------------------------------------------------- *)
\* the backend exits or crashes on its own; nothing in main.rs observes it
BackendExit ==
    /\ \E i \in 1..Len(procs) :
        /\ procs[i].state = "running"
        /\ procs' = [procs EXCEPT ![i].state = "exited"]
    /\ UNCHANGED <<envVars, setupVars, handlerVars, log, child>>

Next ==
    \/ SetupLocate
    \/ SetupBuild
    \/ SetupPolicy
    \/ SetupSpawn
    \/ SetupDevMode
    \/ \E h \in Handlers : WindowEvent(h)
    \/ \E h \in Handlers : HandlerLock(h)
    \/ \E h \in Handlers : HandlerKill(h)
    \/ \E h \in Handlers : HandlerClear(h)
    \/ \E h \in Handlers : HandlerEpmd(h)
    \/ \E h \in Handlers : HandlerUnlock(h)
    \/ BackendExit

Spec == Init /\ [][Next]_vars

(* ---------------------------------------------------------------------- *)
(* config.json changing during the run                                     *)
(* ---------------------------------------------------------------------- *)
\* what the settings of the application write to config.json
WrittenConfigs ==
    {[state |-> "present",
      content |-> "{\"network_exposure_enabled\": true}"],
     [state |-> "present",
      content |-> "{\"network_exposure_enabled\": false}"]}

\* another program rewrites config.json; main.rs is not told
ConfigWrite ==
    /\ configWrites < MaxConfigWrites
    /\ \E c \in WrittenConfigs :
        /\ c # configFile
        /\ configFile' = c
    /\ configWrites' = configWrites + 1
    /\ UNCHANGED <<platform, platformDir, resourceDir, currentExe, fs,
                   logWritable, setupVars, handlerVars, log, procs, child>>

\* the runs with config.json changing: the executable's directory is
\* unresolved, so the backend is either in the resource directory or
\* nowhere, and the log is writable
InitConfig ==
    /\ Init
    /\ currentExe = None
    /\ logWritable
    /\ fs \in {{}, BackendPaths(platform)}

NextConfig == Next \/ ConfigWrite

SpecConfig == InitConfig /\ [][NextConfig]_vars

TypeOK ==
    /\ setupPc \in {"locate", "build", "policy", "spawn", "devmode", "done",
                    "panicked"}
    /\ mutex \in 0..NumHandlers
    /\ closesHandled \in 0..MaxCloses

(* ---------------------------------------------------------------------- *)
(* Properties                                                              *)
(* ---------------------------------------------------------------------- *)
\* some close handler has executed line 179
Cleared ==
    closesHandled > 0 \/ \E h \in Handlers : hpc[h] \in {"epmd", "unlock"}

\* some close handler has executed lines 175-178
PastKill ==
    closesHandled > 0
    \/ \E h \in Handlers : hpc[h] \in {"clear", "epmd", "unlock"}

\* the terminate signals each spawned backend has been sent
Signals == [i \in 1..Len(procs) |-> procs[i].kills]

\* C1: once setup has returned after a successful spawn, and until a close
\* handler clears it, the state holds the handle of the one spawned process;
\* once a close handler has run to its end the handle is absent, whatever
\* child.kill() returned.
C1_HandleHeldThenCleared ==
    /\ (setupPc = "done" /\ Len(procs) = 1 /\ ~Cleared) => child = Some(1)
    /\ closesHandled > 0 => child = None

\* C1 witness: a close handler has finished after a failed kill of the
\* spawned backend, and the handle is absent.
C1_Witness ==
    /\ Len(procs) = 1
    /\ closesHandled = 1
    /\ lastKill = "err"
    /\ child = None

\* C2: no backend is ever signalled twice, and once one close handler has
\* run to its end every later step finds the handle absent, leaves it
\* absent, signals nothing and does not panic.
C2_ShutdownIdempotent ==
    /\ [](\A i \in 1..Len(procs) : procs[i].kills <= 1)
    /\ [][closesHandled >= 1 =>
            /\ child = None
            /\ child' = None
            /\ Signals' = Signals
            /\ \A h \in Handlers : hpc'[h] # "panicked"]_vars

\* C2 witness: two close handlers have run to their end and the spawned
\* backend was signalled once.
C2_Witness ==
    /\ closesHandled >= 2
    /\ Len(procs) = 1
    /\ procs[1].kills = 1
    /\ child = None

\* C3: as soon as a close handler is past its kill step, every backend that
\* was spawned has been sent a terminate signal.
C3_SpawnedBackendSignalled ==
    PastKill => \A i \in 1..Len(procs) : procs[i].kills >= 1

\* C3 witness: the first close handler has finished and the spawned backend
\* was signalled and is gone.
C3_Witness ==
    /\ closesHandled = 1
    /\ Len(procs) = 1
    /\ procs[1].kills = 1
    /\ procs[1].state = "killed"

\* C4: spawn is attempted at most once, only by setup before any handler
\* runs, so at most one backend process exists and the handle, when held,
\* is the handle of that process.
C4_SingleBackend ==
    /\ spawnAttempts <= 1
    /\ Len(procs) <= spawnAttempts
    /\ IsSome(child) => child.v = 1 /\ Len(procs) = 1
    /\ (InFlight > 0 \/ closesHandled > 0) => setupPc = "done"
    /\ setupPc \in {"locate", "build", "policy", "spawn", "devmode"} =>
            spawnAttempts = 0

\* C4 witness: the one spawn attempt succeeded and its handle is held.
C4_Witness ==
    /\ spawnAttempts = 1
    /\ Len(procs) = 1
    /\ child = Some(1)
    /\ procs[1].state = "running"

\* C5 as stated: a held handle refers to a backend that has not exited.
C5_HeldHandleIsRunning ==
    IsSome(child) => procs[child.v].state = "running"

\* C5 amended: the handle is held exactly from the successful spawn until
\* the first close handler clears it, whether or not the backend has exited
\* in between; it always refers to the one spawned process.
C5_HeldFromSpawnToClear ==
    child = IF Len(procs) = 1 /\ ~Cleared THEN Some(1) ELSE None

\* C5 witness: the handle is still held for a backend that has exited on
\* its own, with no close request handled.
C5_Witness ==
    /\ IsSome(child)
    /\ procs[child.v].state = "exited"
    /\ procs[child.v].kills = 0

\* the config.json files that are readable JSON objects holding the key
\* network_exposure_enabled with the boolean true
EnablingConfigs ==
    {[state |-> "present",
      content |-> "{\"network_exposure_enabled\": true}"],
     [state |-> "present",
      content |-> "{\"network_exposure_enabled\": true, \"other\": false}"]}

\* C6: is_network_exposure_enabled answers a boolean in every environment
\* and answers true exactly when the user directory resolves and
\* config.json is a readable JSON object whose network_exposure_enabled is
\* the boolean true; setup continues to the spawn with that answer.
C6_PolicyTrueOnlyForBooleanTrue ==
    /\ is_network_exposure_enabled \in BOOLEAN
    /\ is_network_exposure_enabled
        <=> (IsSome(platformDir) /\ configFile \in EnablingConfigs)
    /\ configReads >= 1 =>
        /\ setupPc \in {"spawn", "done"}
        /\ networkEnabled
            <=> (IsSome(platformDir) /\ configFile \in EnablingConfigs)

\* C6 witness: setup has read the policy from an object that holds the flag
\* next to another key, and the answer was true.
C6_Witness ==
    /\ configReads = 1
    /\ networkEnabled
    /\ configFile.content
        = "{\"network_exposure_enabled\": true, \"other\": false}"

\* the candidates in priority order, for the directories that resolved
RelativeBackend ==
    <<"leaxer_core", "bin",
      IF platform = "windows" THEN "leaxer_core.bat" ELSE "leaxer_core">>

Candidates ==
    (IF IsSome(resourceDir) THEN <<resourceDir.v \o RelativeBackend>>
     ELSE <<>>)
    \o (IF IsSome(currentExe)
        THEN LET dir == SubSeq(currentExe.v, 1, Len(currentExe.v) - 1) IN
             <<dir \o <<"resources">> \o RelativeBackend,
               dir \o RelativeBackend>>
        ELSE <<>>)

ExistingCandidates == {i \in 1..Len(Candidates) : Candidates[i] \in fs}

\* C7: once setup has probed the candidates, backend_exe is the existing
\* candidate of least index in the order resource directory, resources
\* folder next to the executable, executable's directory; it is the
\* resource-directory candidate whenever that exists, and it is absent
\* exactly when no candidate exists.
C7_FirstExistingCandidate ==
    setupPc # "locate" =>
        /\ (backendExe = None) <=> (ExistingCandidates = {})
        /\ \A i \in ExistingCandidates :
            (\A j \in ExistingCandidates : i <= j) =>
                backendExe = Some(Candidates[i])
        /\ (IsSome(resourceDir) /\ (resourceDir.v \o RelativeBackend) \in fs)
            => backendExe = Some(resourceDir.v \o RelativeBackend)

\* C7 witness: three distinct candidates exist and the one in the resource
\* directory was returned.
C7_Witness ==
    /\ setupPc # "locate"
    /\ resourceDir = Some(<<"/", "res">>)
    /\ ExistingCandidates = {1, 2, 3}
    /\ backendExe = Some(<<"/", "res">> \o RelativeBackend)

\* the environment handed to a spawn holds the bind-all variable, set to
\* "true", exactly when the policy is true
BindAllMatchesPolicy(env, policy) ==
    /\ ("LEAXER_BIND_ALL_INTERFACES" \in DOMAIN env) <=> policy
    /\ policy => env["LEAXER_BIND_ALL_INTERFACES"] = "true"

\* C8: the command setup spawns, and every backend spawned from it, has
\* LEAXER_BIND_ALL_INTERFACES = "true" in its environment when the policy
\* read from config.json is true and does not have the variable otherwise.
C8_BindAllFollowsPolicy ==
    /\ setupPc \in {"spawn", "done"} /\ IsSome(cmd) =>
        BindAllMatchesPolicy(cmd.v.env, networkEnabled)
    /\ \A i \in 1..Len(procs) :
        BindAllMatchesPolicy(procs[i].env, networkEnabled)

\* C8 witness: a backend was spawned with the variable set, from a config
\* that enables network exposure.
C8_Witness ==
    /\ Len(procs) = 1
    /\ networkEnabled
    /\ "LEAXER_BIND_ALL_INTERFACES" \in DOMAIN procs[1].env
    /\ procs[1].env["LEAXER_BIND_ALL_INTERFACES"] = "true"

NotFoundLogged == \E i \in 1..Len(log) : log[i].msg = MsgNotFound

ExeAdjacentCandidates ==
    IF IsSome(currentExe)
    THEN LET dir == SubSeq(currentExe.v, 1, Len(currentExe.v) - 1) IN
         <<dir \o <<"resources">> \o RelativeBackend, dir \o RelativeBackend>>
    ELSE <<>>

\* the first n elements of a sequence
Prefix(q, n) == SubSeq(q, 1, n)

\* the candidates of q up to and including the first that exists, all of
\* them when none exists
ProbedOf(q) ==
    IF \E i \in 1..Len(q) : q[i] \in fs
    THEN Prefix(q, CHOOSE i \in 1..Len(q) :
                    /\ q[i] \in fs
                    /\ \A j \in 1..(i - 1) : q[j] \notin fs)
    ELSE q

\* C11 as stated: with the user directory unresolved the policy is false
\* and only the candidates next to the executable are probed, in order, the
\* resource-directory candidate being skipped.
C11_OnlyExeAdjacentProbed ==
    (~IsSome(platformDir) /\ setupPc # "locate") =>
        /\ ~networkEnabled
        /\ probes = ProbedOf(ExeAdjacentCandidates)
        /\ backendExe = IF probes # <<>> /\ probes[Len(probes)] \in fs
                        THEN Some(probes[Len(probes)]) ELSE None

\* C11 amended: with the user directory unresolved the policy is false and
\* the locator works as with a resolved one, since no candidate needs the
\* user directory: the resource-directory candidate is probed first when
\* the resource directory resolves, then the candidates next to the
\* executable in order, up to the first candidate that exists.
C11_AllCandidatesProbedWithoutUserDir ==
    (~IsSome(platformDir) /\ setupPc # "locate") =>
        /\ ~is_network_exposure_enabled
        /\ ~networkEnabled
        /\ probes = ProbedOf(Candidates)
        /\ backendExe = IF probes # <<>> /\ probes[Len(probes)] \in fs
                        THEN Some(probes[Len(probes)]) ELSE None

\* C11 witness: the user directory is unresolved, the resource directory
\* was probed first and held no backend, the backend was found next to the
\* executable, and the policy was read as false.
C11_Witness ==
    /\ ~IsSome(platformDir)
    /\ resourceDir = Some(<<"/", "res">>)
    /\ Len(probes) = 3
    /\ probes[1] = <<"/", "res">> \o RelativeBackend
    /\ backendExe = Some(probes[3])
    /\ configReads = 1
    /\ ~networkEnabled

\* the path two levels above p, absent when p is too short to have one
GrandparentOf(p) ==
    IF Len(p) >= 3 THEN Some(SubSeq(p, 1, Len(p) - 2)) ELSE None

\* C12: the command built for a located backend, and every backend spawned
\* from it, has as working directory the directory two levels above the
\* located executable, whichever candidate the executable came from.
C12_WorkingDirIsGrandparent ==
    /\ IsSome(cmd) =>
        /\ IsSome(backendExe)
        /\ cmd.v.cwd = GrandparentOf(backendExe.v)
    /\ \A i \in 1..Len(procs) : procs[i].cwd = GrandparentOf(backendExe.v)

\* C12 witness: the backend was located in the resources folder next to
\* the executable and spawned with that folder's leaxer_core as working
\* directory.
C12_Witness ==
    /\ resourceDir = None
    /\ backendExe = Some(<<"/", "app", "resources">> \o RelativeBackend)
    /\ Len(procs) = 1
    /\ procs[1].cwd = Some(<<"/", "app", "resources", "leaxer_core">>)

\* the environment every spawn must carry
FixedEnv ==
    [PHX_SERVER |-> "true",
     PHX_HOST |-> "localhost",
     SECRET_KEY_BASE |->
        "leaxer_desktop_secret_key_base_that_is_at_least_64_bytes_long_for_security",
     SIGNING_SALT |-> "leaxer_desktop_signing_salt",
     CORS_ORIGINS |->
        "http://localhost:4000,http://127.0.0.1:4000,https://tauri.localhost,tauri://localhost"]

\* the arguments the backend executable exe receives from a command: the
\* command's arguments when exe is the program, those following exe when
\* exe is run through a shell
BackendArgs(c, exe) ==
    IF c.program = exe THEN c.args
    ELSE IF \E i \in 1..Len(c.args) : c.args[i] = exe
         THEN LET i == CHOOSE i \in 1..Len(c.args) : c.args[i] = exe IN
              SubSeq(c.args, i + 1, Len(c.args))
         ELSE <<>>

\* the command or process c runs exe with the one argument start and the
\* five fixed variables, and holds no other variable than the bind-all one
FixedContract(c, exe) ==
    /\ BackendArgs(c, exe) = << <<"start">> >>
    /\ \A k \in DOMAIN FixedEnv : k \in DOMAIN c.env /\ c.env[k] = FixedEnv[k]
    /\ (DOMAIN c.env) \ (DOMAIN FixedEnv) \subseteq {"LEAXER_BIND_ALL_INTERFACES"}

\* C13: on every platform and under either policy, the command setup
\* builds and every backend spawned from it passes the single argument
\* start to the backend and carries the five fixed variables unchanged; the
\* only other variable it may carry is the bind-all one.
C13_FixedArgumentAndEnvironment ==
    /\ IsSome(cmd) => FixedContract(cmd.v, backendExe.v)
    /\ \A i \in 1..Len(procs) : FixedContract(procs[i], backendExe.v)

\* C13 witness: on Windows, with network exposure enabled, a spawn was
\* attempted with six variables in the environment.
C13_Witness ==
    /\ platform = "windows"
    /\ spawnAttempts = 1
    /\ networkEnabled
    /\ Cardinality(DOMAIN cmd.v.env) = 6
    /\ cmd.v.env["PHX_HOST"] = "localhost"

\* C14: a failed spawn leaves the handle absent; spawn is attempted only
\* once, by setup; and once setup has returned no step attempts a spawn,
\* starts a process or turns an absent handle into a held one.
C14_NoRetryNoRestart ==
    /\ []((setupPc = "done" /\ spawnAttempts = 1 /\ procs = <<>>)
            => child = None)
    /\ [][spawnAttempts' # spawnAttempts =>
            spawnAttempts = 0 /\ setupPc = "spawn"]_vars
    /\ [][setupPc = "done" =>
            /\ spawnAttempts' = spawnAttempts
            /\ Len(procs') = Len(procs)
            /\ (child = None => child' = None)]_vars

\* C14 witness: the one spawn attempt failed, a close request was handled
\* afterwards, and there is still neither a process nor a handle.
C14_Witness ==
    /\ setupPc = "done"
    /\ spawnAttempts = 1
    /\ procs = <<>>
    /\ closesHandled = 1
    /\ child = None

\* a step that sends a terminate signal, clears the handle, issues the
\* epmd termination, or releases the mutex
KillStep == \E i \in 1..Len(procs) : procs'[i].kills # procs[i].kills
ClearStep == IsSome(child) /\ child' = None
EpmdStep == epmdKills' # epmdKills
ReleaseStep == mutex # 0 /\ mutex' = 0

\* the order of the first steps of a close handler: the terminate is issued
\* under the lock while the handle is held, the handle is cleared under the
\* lock after the terminate
KillThenClearUnderLock ==
    /\ KillStep => mutex # 0 /\ mutex' = mutex /\ IsSome(child) /\ child' = child
    /\ ClearStep => mutex # 0 /\ mutex' = mutex /\ procs[child.v].kills >= 1

\* C15 as stated: terminate, then clear, then release, and the epmd
\* termination is issued only after the release, with the lock not held.
C15_EpmdAfterRelease ==
    [][/\ KillThenClearUnderLock
       /\ EpmdStep => mutex = 0 /\ child = None]_vars

\* C15 amended: terminate, then clear, then on Windows the epmd
\* termination, all under the lock, and the release comes last: the lock
\* is still held while the epmd termination is issued.
C15_EpmdBeforeRelease ==
    [][/\ KillThenClearUnderLock
       /\ EpmdStep =>
            /\ platform = "windows"
            /\ mutex # 0
            /\ mutex' = mutex
            /\ child = None
       /\ ReleaseStep =>
            /\ child = None
            /\ closesHandled' = closesHandled + 1
            /\ platform = "windows" => epmdKills = closesHandled + 1]_vars

\* C15 witness: on Windows a handler has killed the spawned backend,
\* cleared the handle and issued the epmd termination, and still holds the
\* lock.
C15_Witness ==
    /\ platform = "windows"
    /\ Len(procs) = 1
    /\ procs[1].kills = 1
    /\ child = None
    /\ epmdKills = 1
    /\ closesHandled = 0
    /\ mutex # 0

\* handler h is between its lock and the drop of its guard
InCritical(h) == hpc[h] \in {"kill", "clear", "epmd", "unlock"}

\* C16: a handler is between lock and release exactly when it holds the
\* mutex, so at most one is; the handle changes only under the mutex, in
\* the clear of the holder or in setup's store before any handler runs; a
\* signal is sent only by the holder; a handler about to read the handle
\* never finds one that was already signalled, and no backend is signalled
\* twice.
C16_HandleOnlyUnderLock ==
    /\ [](\A h \in Handlers : InCritical(h) <=> mutex = h)
    /\ [](\A h \in Handlers :
            (hpc[h] = "kill" /\ IsSome(child)) => procs[child.v].kills = 0)
    /\ [](\A i \in 1..Len(procs) : procs[i].kills < 2)
    /\ [][child' # child =>
            \/ mutex # 0 /\ mutex' = mutex /\ hpc[mutex] = "clear"
            \/ setupPc = "spawn" /\ mutex = 0 /\ InFlight = 0]_vars
    /\ [][KillStep => mutex # 0 /\ hpc[mutex] = "kill"]_vars

\* C16 witness: one handler has signalled the backend and not yet cleared
\* the handle while another handler waits for the mutex.
C16_Witness ==
    \E h1, h2 \in Handlers :
        /\ hpc[h1] = "clear"
        /\ hpc[h2] = "lock"
        /\ mutex = h1
        /\ IsSome(child)
        /\ procs[child.v].kills = 1

\* what is_network_exposure_enabled answers for the config.json of now
PolicyNow == IsSome(platformDir) /\ configFile \in EnablingConfigs

\* C17: the policy is read at most once, by setup between locating the
\* backend and the spawn attempt, never when no backend was found and never
\* after the spawn; the answer of that read decides the environment of the
\* backend, and a later write to config.json changes neither the answer
\* nor the command nor any spawned backend.
C17_PolicyReadOnceBeforeSpawn ==
    /\ [](configReads <= 1)
    /\ [](configReads = 1 => IsSome(backendExe))
    /\ [](\A i \in 1..Len(procs) :
            /\ configReads = 1
            /\ BindAllMatchesPolicy(procs[i].env, networkEnabled))
    /\ [][configReads' # configReads =>
            /\ setupPc = "policy"
            /\ spawnAttempts = 0
            /\ networkEnabled' = PolicyNow]_vars
    /\ [][configReads = 1 => networkEnabled' = networkEnabled]_vars
    /\ [][configFile' # configFile =>
            /\ configReads' = configReads
            /\ cmd' = cmd
            /\ procs' = procs]_vars

\* C17 witness: a backend was spawned without the bind-all variable from a
\* policy read as false, is still running, and config.json has since been
\* rewritten to enable network exposure.
C17_Witness ==
    /\ Len(procs) = 1
    /\ procs[1].state = "running"
    /\ configWrites = 1
    /\ ~networkEnabled
    /\ PolicyNow
    /\ "LEAXER_BIND_ALL_INTERFACES" \notin DOMAIN procs[1].env

\* the close handlers that have executed the epmd step, if the platform has
\* one: those that finished and those about to drop the guard
PastEpmd ==
    closesHandled + Cardinality({h \in Handlers : hpc[h] = "unlock"})

\* C18: only a process that was spawned and whose handle was stored is
\* ever signalled; when nothing was spawned (dev mode or a failed spawn)
\* the handle stays absent and no kill is ever issued; on Windows every
\* close handler issues the epmd termination, with or without a handle, and
\* elsewhere none does.
C18_SignalsOnlyStoredHandle ==
    /\ lastKill # "none" <=> (Len(procs) = 1 /\ procs[1].kills >= 1)
    /\ \A i \in 1..Len(procs) :
        procs[i].kills >= 1 => setupPc = "done" /\ spawnAttempts = 1
    /\ procs = <<>> => child = None
    /\ epmdKills = IF platform = "windows" THEN PastEpmd ELSE 0

\* C18 witness: on Windows the spawn failed, a close request was handled
\* without any kill, and the epmd termination was issued all the same.
C18_Witness ==
    /\ platform = "windows"
    /\ spawnAttempts = 1
    /\ procs = <<>>
    /\ closesHandled = 1
    /\ InFlight = 0
    /\ lastKill = "none"
    /\ epmdKills = 1

====
